---------------------------- MODULE Spec2Model ----------------------------
(***************************************************************************)
(* A model of mdcat's document pipeline: the statistics engine and the     *)
(* line number formatter of src/stats.rs, and process_file and             *)
(* create_resource_handler of src/lib.rs.                                  *)
(*                                                                         *)
(* Text is a sequence of one-character strings.  A character outside ASCII *)
(* is written as its code point ("U+00E9"), and ByteLen gives its UTF-8    *)
(* length.  Fixed literals of a format string are kept as one chunk.       *)
(***************************************************************************)
EXTENDS Integers, Sequences, FiniteSets

VARIABLES
  \* the document
  file,               \* the text behind the filename
  events,             \* what Parser::new_ext yields for that text
  \* DocumentStats
  overflow_checks,    \* whether the build checks integer overflow
  stats,              \* a DocumentStats value and how it was made
  reading,            \* what reading_time_minutes returned
  \* process_file
  show_line_numbers,
  show_stats,
  pc,                 \* where process_file stands
  input,              \* the text read_input returned
  out,                \* the bytes output.writer() has taken
  sink,               \* the bytes buffered in the BufWriter
  parsed,             \* the text handed to the parser that is rendered
  push_tty_calls,     \* calls of pulldown_cmark_mdcat::push_tty
  flush_calls,        \* calls of sink.flush()
  chain_result,       \* the io::Result the and_then/or_else chain carries
  result,             \* what process_file returned
  \* LineNumberFormatter
  fmt,                \* the formatter's fields
  total_lines,        \* the total_lines it was constructed with
  writer,             \* the bytes its writer has taken
  history,            \* the calls made on it, each with what it wrote
  \* resources
  local_only,         \* CommonArgs::local_only
  access,             \* CommonArgs::resource_access()
  handler,            \* what create_resource_handler returned
  request,            \* the URL being resolved, and the strategy it is at
  responses           \* the outcome of every resolved URL, in order

docVars   == <<file, events>>
statsVars == <<overflow_checks, stats, reading>>
procVars  == <<show_line_numbers, show_stats, pc, input, out, sink, parsed,
               push_tty_calls, flush_calls, chain_result, result>>
fmtVars   == <<fmt, total_lines, writer, history>>
resVars   == <<local_only, access, handler, request, responses>>
vars      == <<docVars, statsVars, procVars, fmtVars, resVars>>

(***************************************************************************)
(* Bounds of the model.                                                    *)
(***************************************************************************)
\* Blocks per document of the corpus.
MaxBlocks == 2
\* usize is modelled UsizeBits wide (the code runs with 32 or 64).
UsizeBits == 10
\* Largest total_lines a LineNumberFormatter is constructed with.
MaxTotalLines == 11
\* Calls made on one LineNumberFormatter.
MaxCalls == 10
\* URLs the renderer asks the resource handler for.
MaxRequests == 2

RECURSIVE Pow2(_)
Pow2(n) == IF n = 0 THEN 1 ELSE 2 * Pow2(n - 1)

\* usize::MAX + 1
UsizeModulus == Pow2(UsizeBits)

(***************************************************************************)
(* Strings.                                                                *)
(***************************************************************************)
SEPARATOR == "U+2502"   \* the glyph of "{:>width$} │ "
RULE_CHAR == "U+2500"
E_ACUTE   == "U+00E9"

\* UTF-8 length of one character.
ByteLen(c) ==
  IF c \in {SEPARATOR, RULE_CHAR} THEN 3
  ELSE IF c = E_ACUTE THEN 2
  ELSE 1

RECURSIVE StrLen(_)
\* str::len(): the length in bytes.
StrLen(s) == IF s = <<>> THEN 0 ELSE ByteLen(Head(s)) + StrLen(Tail(s))

DigitChars == <<"0", "1", "2", "3", "4", "5", "6", "7", "8", "9">>

RECURSIVE to_string(_)
\* usize::to_string(): the decimal digits, most significant first.
to_string(n) ==
  IF n < 10 THEN <<DigitChars[n + 1]>>
  ELSE to_string(n \div 10) \o <<DigitChars[(n % 10) + 1]>>

RECURSIVE Spaces(_)
Spaces(n) == IF n <= 0 THEN <<>> ELSE <<" ">> \o Spaces(n - 1)

\* "{:>width$}": right-aligned, padded with spaces, never truncated.
PadLeft(s, width) == Spaces(width - Len(s)) \o s

IsWhitespace(c) == c \in {" ", "\n", "\r", "\t"}

\* A line of str::lines(): "\n" is cut, and a "\r" before it.
StripCR(line) ==
  IF line # <<>> /\ line[Len(line)] = "\r"
  THEN SubSeq(line, 1, Len(line) - 1)
  ELSE line

RECURSIVE LinesFrom(_, _)
LinesFrom(s, cur) ==
  IF s = <<>> THEN (IF cur = <<>> THEN <<>> ELSE <<cur>>)
  ELSE IF Head(s) = "\n" THEN <<StripCR(cur)>> \o LinesFrom(Tail(s), <<>>)
  ELSE LinesFrom(Tail(s), cur \o <<Head(s)>>)

\* str::lines(), collected.
Lines(s) == LinesFrom(s, <<>>)

RECURSIVE WordsFrom(_, _)
WordsFrom(s, inWord) ==
  IF s = <<>> THEN 0
  ELSE IF IsWhitespace(Head(s)) THEN WordsFrom(Tail(s), FALSE)
  ELSE (IF inWord THEN 0 ELSE 1) + WordsFrom(Tail(s), TRUE)

\* str::split_whitespace().count()
SplitWhitespaceCount(s) == WordsFrom(s, FALSE)

RECURSIVE Join(_, _)
\* [String]::join(sep)
Join(ls, sep) ==
  IF ls = <<>> THEN <<>>
  ELSE IF Len(ls) = 1 THEN ls[1]
  ELSE ls[1] \o sep \o Join(Tail(ls), sep)

RECURSIVE Concat(_)
Concat(ss) == IF ss = <<>> THEN <<>> ELSE Head(ss) \o Concat(Tail(ss))

RECURSIVE SeqsUpTo(_, _)
\* The sequences over S of length at most n.
SeqsUpTo(S, n) ==
  IF n = 0 THEN {<<>>}
  ELSE LET shorter == SeqsUpTo(S, n - 1)
       IN  shorter \cup {Append(q, x) : q \in {r \in shorter : Len(r) = n - 1}, x \in S}

(***************************************************************************)
(* Markdown documents.  pulldown_cmark's parser is a library outside the   *)
(* repository: a document is a sequence of blocks whose parse is known.    *)
(***************************************************************************)
Start(tag) == [ev |-> "Start", tag |-> tag]
End(tag)   == [ev |-> "End", tag |-> tag]
Text       == [ev |-> "Text"]
SoftBreak  == [ev |-> "SoftBreak"]
Rule       == [ev |-> "Rule"]

BlockKinds ==
  {"heading", "para", "link", "image", "code", "list", "olist", "table", "rule"}

\* The markdown source of a block, without its final newline.
BlockSource(k) ==
  CASE k = "heading" -> <<"#", " ", "a">>
    [] k = "para"    -> <<E_ACUTE, "\r", "\n", "a", " ", "a">>
    [] k = "link"    -> <<"[", "a", "]", "(", "b", ")">>
    [] k = "image"   -> <<"!", "[", "a", "]", "(", "b", ")">>
    [] k = "code"    -> <<"~", "~", "~", "\n", "a", "\n", "~", "~", "~">>
    [] k = "list"    -> <<"-", " ", "a", "\n", "-", " ", "a">>
    [] k = "olist"   -> <<"1", ".", " ", "a", "\n", "2", ".", " ", "a">>
    [] k = "table"   -> <<"|", "a", "|", "\n", "|", "-", "|", "\n", "|", "a", "|">>
    [] k = "rule"    -> <<"-", "-", "-">>

Wrap(tag, inner) == <<Start(tag)>> \o inner \o <<End(tag)>>

\* The events Parser::new_ext yields for a block.
BlockEvents(k) ==
  CASE k = "heading" -> Wrap("Heading", <<Text>>)
    [] k = "para"    -> Wrap("Paragraph", <<Text, SoftBreak, Text>>)
    [] k = "link"    -> Wrap("Paragraph", Wrap("Link", <<Text>>))
    [] k = "image"   -> Wrap("Paragraph", Wrap("Image", <<Text>>))
    [] k = "code"    -> Wrap("CodeBlock", <<Text>>)
    [] k = "list"    -> Wrap("List", Wrap("Item", <<Text>>) \o Wrap("Item", <<Text>>))
    [] k = "olist"   -> Wrap("List", Wrap("Item", <<Text>>) \o Wrap("Item", <<Text>>))
    [] k = "table"   ->
         Wrap("Table",
              Wrap("TableHead", Wrap("TableCell", <<Text>>))
              \o Wrap("TableRow", Wrap("TableCell", <<Text>>)))
    [] k = "rule"    -> <<Rule>>

\* Two lists of one kind with a blank line between them are one list: such
\* documents are left out, so that every block parses on its own.
Docs ==
  {d \in SeqsUpTo(BlockKinds, MaxBlocks) :
     \A i \in 1..(Len(d) - 1) : ~(d[i] = d[i + 1] /\ d[i] \in {"list", "olist"})}

\* The text of a document: its blocks with a blank line between them.
Source(d, trailing_newline) ==
  Join([i \in 1..Len(d) |-> BlockSource(d[i])], <<"\n", "\n">>)
    \o (IF trailing_newline THEN <<"\n">> ELSE <<>>)

\* The events of a document.
Parse(d) == Concat([i \in 1..Len(d) |-> BlockEvents(d[i])])

\* The Start events of a construct in a stream.
NumStarts(evs, tag) == Cardinality({i \in 1..Len(evs) : evs[i] = Start(tag)})

(***************************************************************************)
(* DocumentStats (src/stats.rs).                                           *)
(***************************************************************************)
WORDS_PER_MINUTE == 225

\* DocumentStats::default()
DefaultStats ==
  [character_count |-> 0, word_count |-> 0, line_count |-> 0,
   heading_count |-> 0, code_block_count |-> 0, link_count |-> 0,
   image_count |-> 0, list_count |-> 0, table_count |-> 0]

Inc(st, field) == [st EXCEPT ![field] = @ + 1]

\* A variant of MatchEvent that counts a list once per item.
MatchEventPerItem(st, event) ==
  IF event.ev # "Start" THEN st
  ELSE CASE event.tag = "Heading"   -> Inc(st, "heading_count")
         [] event.tag = "CodeBlock" -> Inc(st, "code_block_count")
         [] event.tag = "Link"      -> Inc(st, "link_count")
         [] event.tag = "Image"     -> Inc(st, "image_count")
         [] event.tag = "Item"      -> Inc(st, "list_count")
         [] event.tag = "Table"     -> Inc(st, "table_count")
         [] OTHER                   -> st

\* The match of from_markdown's loop.
MatchEvent(st, event) ==
  IF event.ev # "Start" THEN st
  ELSE CASE event.tag = "Heading"   -> Inc(st, "heading_count")
         [] event.tag = "CodeBlock" -> Inc(st, "code_block_count")
         [] event.tag = "Link"      -> Inc(st, "link_count")
         [] event.tag = "Image"     -> Inc(st, "image_count")
         [] event.tag = "List"      -> Inc(st, "list_count")
         [] event.tag = "Table"     -> Inc(st, "table_count")
         [] OTHER                   -> st

RECURSIVE ForEachEvent(_, _)
\* for event in parser { match event ... }
ForEachEvent(st, evs) ==
  IF evs = <<>> THEN st
  ELSE ForEachEvent(MatchEvent(st, Head(evs)), Tail(evs))

\* DocumentStats::from_markdown; evs is what the parser yields for content.
from_markdown(content, evs) ==
  ForEachEvent(
    [DefaultStats EXCEPT !.character_count = StrLen(content),
                         !.line_count = Len(Lines(content)),
                         !.word_count = SplitWhitespaceCount(content)],
    evs)

\* word_count + WORDS_PER_MINUTE - 1, which overflows usize when an
\* intermediate result leaves 0..usize::MAX.
ReadingTimeOverflows(self) ==
  \/ self.word_count + WORDS_PER_MINUTE >= UsizeModulus
  \/ ((self.word_count + WORDS_PER_MINUTE) % UsizeModulus) - 1 < 0

\* DocumentStats::reading_time_minutes, with wrapping arithmetic (a build
\* without overflow checks).
reading_time_minutes(self) ==
  ((((self.word_count + WORDS_PER_MINUTE) % UsizeModulus) - 1) % UsizeModulus)
    \div WORDS_PER_MINUTE

StatLine(label, n) == <<label>> \o to_string(n) \o <<"\n">>

\* DocumentStats::format
format(self) ==
  LET reading_time == reading_time_minutes(self)
  IN  <<"Document Statistics:", "\n">>
      \o [i \in 1..19 |-> RULE_CHAR] \o <<"\n">>
      \o StatLine("Characters: ", self.character_count)
      \o StatLine("Words: ", self.word_count)
      \o StatLine("Lines: ", self.line_count)
      \o StatLine("Headings: ", self.heading_count)
      \o StatLine("Code blocks: ", self.code_block_count)
      \o StatLine("Links: ", self.link_count)
      \o StatLine("Images: ", self.image_count)
      \o StatLine("Lists: ", self.list_count)
      \o StatLine("Tables: ", self.table_count)
      \o <<"Estimated reading time: ">> \o to_string(reading_time)
      \o <<" minute">> \o (IF reading_time = 1 THEN <<>> ELSE <<"s">>)
      \o <<"\n">>

(***************************************************************************)
(* LineNumberFormatter (src/stats.rs).                                     *)
(***************************************************************************)
\* " │ ", the tail of the format string "{:>width$} │ "
SeparatorTail == <<" ", SEPARATOR, " ">>

\* A variant of new that takes the width from total_lines - 1, as a count
\* of lines numbered from 0 would.
new_width_off_by_one(show, total) ==
  [current_line |-> 0,
   show_line_numbers |-> show,
   line_number_width |->
     IF show THEN Len(to_string(IF total = 0 THEN 0 ELSE total - 1)) ELSE 0]

\* LineNumberFormatter::new
new(show, total) ==
  [current_line |-> 0,
   show_line_numbers |-> show,
   line_number_width |-> IF show THEN Len(to_string(total)) ELSE 0]

\* A variant of write_line_number that moves the cursor outside the if.
write_line_number_always_counts(self) ==
  LET next == [self EXCEPT !.current_line = @ + 1]
  IN  IF self.show_line_numbers
      THEN [self |-> next,
            pieces |-> <<PadLeft(to_string(next.current_line), next.line_number_width),
                         SeparatorTail>>]
      ELSE [self |-> next, pieces |-> <<>>]

\* A variant of write_line_number that emits the number before it moves the
\* cursor.
write_line_number_stale(self) ==
  IF self.show_line_numbers
  THEN [self |-> [self EXCEPT !.current_line = @ + 1],
        pieces |-> <<PadLeft(to_string(self.current_line), self.line_number_width),
                     SeparatorTail>>]
  ELSE [self |-> self, pieces |-> <<>>]

\* A variant of write_line_number that forgets the enabled flag.
write_line_number_unguarded(self) ==
  LET next == [self EXCEPT !.current_line = @ + 1]
  IN  [self |-> IF self.show_line_numbers THEN next ELSE self,
       pieces |-> <<PadLeft(to_string(next.current_line), next.line_number_width),
                    SeparatorTail>>]

\* LineNumberFormatter::write_line_number: the formatter after the call and
\* the pieces write! hands to the writer, in order.
write_line_number(self) ==
  IF self.show_line_numbers
  THEN LET next == [self EXCEPT !.current_line = @ + 1]
       IN  [self |-> next,
            pieces |-> <<PadLeft(to_string(next.current_line), next.line_number_width),
                         SeparatorTail>>]
  ELSE [self |-> self, pieces |-> <<>>]

\* LineNumberFormatter::write_newline: writeln!(writer) hands "\n" over.
write_newline(self) == [self |-> self, pieces |-> <<<<"\n">>>>]

\* LineNumberFormatter::current_line
current_line(self) == self.current_line

(***************************************************************************)
(* The line numbering of process_file (src/lib.rs).                        *)
(***************************************************************************)
\* A variant of numbered_lines that numbers the lines from 0.
numbered_lines_from_zero(text) ==
  LET ls == Lines(text)
      line_number_width == Len(to_string(Len(ls)))
  IN  [i \in 1..Len(ls) |->
         PadLeft(to_string(i - 1), line_number_width) \o SeparatorTail \o ls[i]]

\* let lines: Vec<String> = input.lines().enumerate().map(...).collect()
numbered_lines(text) ==
  LET ls == Lines(text)
      line_number_width == Len(to_string(Len(ls)))
  IN  [i \in 1..Len(ls) |->
         PadLeft(to_string(i), line_number_width) \o SeparatorTail \o ls[i]]

\* let numbered_input = lines.join("\n")
numbered_input(text) == Join(numbered_lines(text), <<"\n">>)

(***************************************************************************)
(* The variables of a part of the program that a specification leaves out  *)
(* stay at these values.                                                   *)
(***************************************************************************)
NoStats   == [by |-> "none", value |-> DefaultStats]
NoReading == [tag |-> "none"]
NoResult  == [tag |-> "none"]
NoRequest == [tag |-> "none"]

IdleDoc == file = <<>> /\ events = <<>>

IdleStats ==
  /\ overflow_checks = FALSE
  /\ stats = NoStats
  /\ reading = NoReading

IdleProc ==
  /\ show_line_numbers = FALSE
  /\ show_stats = FALSE
  /\ pc = "idle"
  /\ input = <<>>
  /\ out = <<>>
  /\ sink = <<>>
  /\ parsed = <<>>
  /\ push_tty_calls = 0
  /\ flush_calls = 0
  /\ chain_result = NoResult
  /\ result = NoResult

IdleFmt ==
  /\ fmt = [current_line |-> 0, show_line_numbers |-> FALSE, line_number_width |-> 0]
  /\ total_lines = 0
  /\ writer = <<>>
  /\ history = <<>>

IdleRes ==
  /\ local_only = FALSE
  /\ access = "none"
  /\ handler = NoResult
  /\ request = NoRequest
  /\ responses = <<>>

(***************************************************************************)
(* process_file (src/lib.rs).                                              *)
(***************************************************************************)
Ok       == [tag |-> "Ok"]
Err(e)   == [tag |-> "Err", error |-> e]

\* std::io::ErrorKind, as far as process_file tells the kinds apart.
IoErrorKinds == {"BrokenPipe", "WriteZero", "Other"}

\* An io::Error and the call that raised it.
IoError(kind, at) == [kind |-> kind, at |-> at]

\* What the renderer leaves in the sink for a text; its algorithm is not
\* part of the program.
Rendered(text) == <<"<tty>">> \o text

\* The pieces writeln!(output.writer(), "{}", stats.format()) writes.
StatsPieces(st) == <<format(st), <<"\n">>>>

\* The first n of some pieces, as bytes.
Written(pieces, n) == Concat(SubSeq(pieces, 1, n))

\* A variant of AfterStats without the early return.
AfterStatsNoReturn(line_numbers) == "environment"

\* if !show_line_numbers { return Ok(()) }: where process_file goes after
\* the stats block is written.
AfterStats(line_numbers) == IF ~line_numbers THEN "done" ELSE "environment"

\* A variant of or_else that swallows every error.
or_else_swallow_all(error) == Ok

\* The closure of or_else: a broken pipe is ignored, any other error stays.
or_else(error) == IF error.kind = "BrokenPipe" THEN Ok ELSE Err(error)

\* let (base_dir, input) = read_input(filename)?
ReadInput ==
  /\ pc = "read_input"
  /\ \/ /\ input' = file
        /\ pc' = "stats"
        /\ UNCHANGED result
     \/ /\ result' = Err(IoError("Other", "read_input"))
        /\ pc' = "done"
        /\ UNCHANGED input
  /\ UNCHANGED <<show_line_numbers, show_stats, out, sink, parsed, push_tty_calls,
                 flush_calls, chain_result, docVars, statsVars, fmtVars, resVars>>

\* if show_stats { ...; writeln!(...)?; if !show_line_numbers { return Ok(()) } }
\* The write fails at any of its pieces, with what came before it written.
ShowStats ==
  /\ pc = "stats"
  /\ show_stats
  /\ LET pieces == StatsPieces(from_markdown(input, events))
     IN  \/ /\ out' = out \o Written(pieces, Len(pieces))
            /\ pc' = AfterStats(show_line_numbers)
            /\ result' = IF pc' = "done" THEN Ok ELSE result
         \/ \E n \in 0..(Len(pieces) - 1), kind \in IoErrorKinds :
              /\ out' = out \o Written(pieces, n)
              /\ pc' = "done"
              /\ result' = Err(IoError(kind, "stats"))
  /\ UNCHANGED <<show_line_numbers, show_stats, input, sink, parsed, push_tty_calls,
                 flush_calls, chain_result, docVars, statsVars, fmtVars, resVars>>

\* show_stats is false: the if is skipped.
SkipStats ==
  /\ pc = "stats"
  /\ ~show_stats
  /\ pc' = "environment"
  /\ UNCHANGED <<show_line_numbers, show_stats, input, out, sink, parsed, push_tty_calls,
                 flush_calls, chain_result, result, docVars, statsVars, fmtVars, resVars>>

\* let parser = Parser::new_ext(&input, ...);
\* let env = Environment::for_local_directory(&base_dir)?;
\* let mut sink = BufWriter::new(output.writer());
CreateEnvironment ==
  /\ pc = "environment"
  /\ \/ /\ parsed' = input
        /\ pc' = IF show_line_numbers THEN "numbering" ELSE "push_tty"
        /\ UNCHANGED result
     \/ /\ result' = Err(IoError("Other", "environment"))
        /\ pc' = "done"
        /\ UNCHANGED parsed
  /\ UNCHANGED <<show_line_numbers, show_stats, input, out, sink, push_tty_calls,
                 flush_calls, chain_result, docVars, statsVars, fmtVars, resVars>>

\* if show_line_numbers { ...; let parser = Parser::new_ext(&numbered_input, ...)
Annotate ==
  /\ pc = "numbering"
  /\ parsed' = numbered_input(input)
  /\ pc' = "push_tty"
  /\ UNCHANGED <<show_line_numbers, show_stats, input, out, sink, push_tty_calls,
                 flush_calls, chain_result, result, docVars, statsVars, fmtVars, resVars>>

\* pulldown_cmark_mdcat::push_tty(settings, &env, resource_handler, &mut sink, parser),
\* in either branch: it renders into the BufWriter, or fails with nothing or
\* a part rendered.
PushTty ==
  /\ pc = "push_tty"
  /\ push_tty_calls' = push_tty_calls + 1
  /\ \/ /\ sink' = sink \o Rendered(parsed)
        /\ chain_result' = Ok
     \/ \E kind \in IoErrorKinds :
          /\ chain_result' = Err(IoError(kind, "push_tty"))
          /\ sink' \in {sink, sink \o <<"<tty>">>}
  /\ pc' = "and_then"
  /\ UNCHANGED <<show_line_numbers, show_stats, input, out, parsed, flush_calls,
                 result, docVars, statsVars, fmtVars, resVars>>

\* .and_then(|_| sink.flush()): the closure runs on Ok alone.
AndThen ==
  /\ pc = "and_then"
  /\ IF chain_result = Ok
     THEN /\ flush_calls' = flush_calls + 1
          /\ \/ /\ out' = out \o sink
                /\ sink' = <<>>
                /\ chain_result' = Ok
             \/ \E kind \in IoErrorKinds :
                  /\ chain_result' = Err(IoError(kind, "flush"))
                  /\ UNCHANGED <<out, sink>>
     ELSE UNCHANGED <<flush_calls, out, sink, chain_result>>
  /\ pc' = "or_else"
  /\ UNCHANGED <<show_line_numbers, show_stats, input, parsed, push_tty_calls,
                 result, docVars, statsVars, fmtVars, resVars>>

\* .or_else(|error| ...)?; Ok(()): the closure runs on Err alone.  The
\* BufWriter is dropped on return, and what is still buffered is written
\* if the writer takes it.
OrElse ==
  /\ pc = "or_else"
  /\ result' = IF chain_result = Ok THEN Ok ELSE or_else(chain_result.error)
  /\ sink' = <<>>
  /\ \/ out' = out \o sink
     \/ sink # <<>> /\ UNCHANGED out
  /\ pc' = "done"
  /\ UNCHANGED <<show_line_numbers, show_stats, input, parsed, push_tty_calls,
                 flush_calls, chain_result, docVars, statsVars, fmtVars, resVars>>

\* One call of process_file on a document of the corpus.
Init ==
  /\ \E d \in Docs, nl \in BOOLEAN : file = Source(d, nl) /\ events = Parse(d)
  /\ show_line_numbers \in BOOLEAN
  /\ show_stats \in BOOLEAN
  /\ pc = "read_input"
  /\ input = <<>>
  /\ out = <<>>
  /\ sink = <<>>
  /\ parsed = <<>>
  /\ push_tty_calls = 0
  /\ flush_calls = 0
  /\ chain_result = NoResult
  /\ result = NoResult
  /\ IdleStats /\ IdleFmt /\ IdleRes

Next ==
  \/ ReadInput
  \/ ShowStats
  \/ SkipStats
  \/ CreateEnvironment
  \/ Annotate
  \/ PushTty
  \/ AndThen
  \/ OrElse

Spec == Init /\ [][Next]_vars

\* The call was made with stats alone and its input was read.
StatsOnlyDone ==
  /\ pc = "done"
  /\ show_stats
  /\ ~show_line_numbers
  /\ ~(result.tag = "Err" /\ result.error.at = "read_input")

\* C1 as stated: in stats-only mode the bytes written are exactly the
\* result of DocumentStats::format, the renderer is not invoked and the
\* call succeeds.
C1_Original ==
  StatsOnlyDone =>
    /\ out = format(from_markdown(input, events))
    /\ push_tty_calls = 0
    /\ result = Ok

\* C1 as amended: in stats-only mode the renderer is never invoked; the
\* call succeeds exactly when the write of the stats block does, and the
\* bytes written are then the result of DocumentStats::format followed by
\* the one newline writeln! adds; a failed write returns its own error and
\* leaves a part of those bytes written.
C1_StatsOnly ==
  StatsOnlyDone =>
    LET block == format(from_markdown(input, events))
    IN  /\ push_tty_calls = 0
        /\ flush_calls = 0
        /\ \/ result = Ok /\ out = block \o <<"\n">>
           \/ /\ result.tag = "Err"
              /\ result.error.at = "stats"
              /\ out \in {<<>>, block}

\* Stats-only mode has written the stats block of a document that has
\* lines, words and a heading, and returned success.
C1_Witness ==
  /\ StatsOnlyDone
  /\ result = Ok
  /\ NumStarts(events, "Heading") = 1
  /\ input # <<>>
  /\ out # <<>>

\* C2: when push_tty or the flush fails, process_file succeeds if and only
\* if the error kind is broken pipe and otherwise fails with that very
\* error, in the numbered and in the plain branch alike; flush is attempted
\* only after push_tty succeeded.
C2_BrokenPipeSwallowed ==
  /\ (pc = "done" /\ chain_result.tag = "Err") =>
       /\ result = Ok <=> chain_result.error.kind = "BrokenPipe"
       /\ chain_result.error.kind # "BrokenPipe" => result = Err(chain_result.error)
  /\ flush_calls <= push_tty_calls
  /\ push_tty_calls <= 1
  /\ (chain_result.tag = "Err" /\ chain_result.error.at = "push_tty") => flush_calls = 0
  /\ (chain_result.tag = "Err" /\ chain_result.error.at = "flush") => flush_calls = 1

\* The numbered branch rendered, its flush hit a broken pipe, and the call
\* returned success.
C2_Witness ==
  /\ pc = "done"
  /\ show_line_numbers
  /\ chain_result = Err(IoError("BrokenPipe", "flush"))
  /\ result = Ok

\* The calls of process_file that write to the output sink.
SinkWrites == {"stats", "push_tty", "flush"}

\* C11: in every mode of process_file a write to the output sink that
\* fails with a broken pipe gives a successful outcome, the write of the
\* stats block included, and a write that fails with anything else gives a
\* failed outcome that carries the original error.
C11_BrokenPipeIsSuccessEverywhere ==
  pc = "done" =>
    /\ ~(/\ result.tag = "Err"
         /\ result.error.at \in SinkWrites
         /\ result.error.kind = "BrokenPipe")
    /\ (chain_result.tag = "Err" /\ chain_result.error.kind # "BrokenPipe") =>
         result = Err(chain_result.error)

(***************************************************************************)
(* A LineNumberFormatter in use, beside the numbering of process_file on   *)
(* the same document.                                                      *)
(***************************************************************************)
\* The calls made so far all returned Ok: a caller stops at the first Err.
AllOk == \A i \in 1..Len(history) : history[i].ok

\* The writer takes the pieces a call hands to it, or fails at one of them
\* with the pieces before it written.
WriterTakes(op, pieces) ==
  \/ /\ writer' = writer \o Written(pieces, Len(pieces))
     /\ history' = Append(history, [op |-> op, wrote |-> Concat(pieces), ok |-> TRUE])
  \/ \E n \in 0..(Len(pieces) - 1) :
       /\ writer' = writer \o Written(pieces, n)
       /\ history' = Append(history, [op |-> op, wrote |-> Concat(pieces), ok |-> FALSE])

\* formatter.write_line_number(&mut writer)
WriteLineNumber ==
  /\ Len(history) < MaxCalls
  /\ AllOk
  /\ fmt' = write_line_number(fmt).self
  /\ WriterTakes("write_line_number", write_line_number(fmt).pieces)
  /\ UNCHANGED <<total_lines, docVars, statsVars, procVars, resVars>>

\* formatter.write_newline(&mut writer)
WriteNewline ==
  /\ Len(history) < MaxCalls
  /\ AllOk
  /\ fmt' = write_newline(fmt).self
  /\ WriterTakes("write_newline", write_newline(fmt).pieces)
  /\ UNCHANGED <<total_lines, docVars, statsVars, procVars, resVars>>

\* Line i of the documents a formatter is tried on.
LineContent(i) ==
  CASE i % 3 = 1 -> <<"a">>
    [] i % 3 = 2 -> <<>>
    [] OTHER     -> <<"a", " ", "b">>

DocOfLines(n, nl) ==
  Join([i \in 1..n |-> LineContent(i)], <<"\n">>) \o (IF nl THEN <<"\n">> ELSE <<>>)

\* The documents a formatter is tried on: around the step from one digit to
\* two, without a final newline, and the longest with one.
FmtDocs ==
  {DocOfLines(n, FALSE) : n \in {0, 1, 9, 10, MaxTotalLines}}
    \cup {DocOfLines(MaxTotalLines, TRUE)}

\* process_file stands before its numbering of a document, and a formatter
\* was made for the lines of that document.
InitFmt ==
  /\ file \in FmtDocs
  /\ events = <<>>
  /\ total_lines = Len(Lines(file))
  /\ \E show \in BOOLEAN : fmt = new(show, total_lines)
  /\ writer = <<>>
  /\ history = <<>>
  /\ show_line_numbers = TRUE
  /\ show_stats = FALSE
  /\ pc = "numbering"
  /\ input = file
  /\ out = <<>>
  /\ sink = <<>>
  /\ parsed = file
  /\ push_tty_calls = 0
  /\ flush_calls = 0
  /\ chain_result = NoResult
  /\ result = NoResult
  /\ IdleStats /\ IdleRes

NextFmt == Annotate \/ WriteLineNumber \/ WriteNewline

SpecFmt == InitFmt /\ [][NextFmt]_vars

\* The calls of one operation made so far, as indexes of the history.
CallsOf(op) == {i \in 1..Len(history) : history[i].op = op}

\* The call at index i is the how-manieth write_line_number call.
Rank(i) == Cardinality({j \in CallsOf("write_line_number") : j <= i})

RECURSIVE NumDigits(_)
\* The number of decimal digits of n.
NumDigits(n) == IF n < 10 THEN 1 ELSE 1 + NumDigits(n \div 10)

\* The number i right-aligned to the digits of n, a space, the separator
\* glyph and a space.
ExpectedPrefix(i, n) ==
  Spaces(NumDigits(n) - NumDigits(i)) \o to_string(i) \o <<" ", SEPARATOR, " ">>

\* C5: for a document of N lines, the numbering of process_file and an
\* enabled LineNumberFormatter made with total_lines = N both use a column
\* as wide as N has decimal digits, and both put before line i (1 <= i <= N)
\* the number i right-aligned to that width, a space, the separator glyph
\* and a space.
C5_RealizationsAgree ==
  LET ls == Lines(file)
      N  == Len(ls)
  IN  /\ (fmt.show_line_numbers /\ total_lines = N) =>
           /\ fmt.line_number_width = NumDigits(N)
           /\ \A i \in CallsOf("write_line_number") :
                Rank(i) <= N => history[i].wrote = ExpectedPrefix(Rank(i), N)
      /\ pc = "push_tty" =>
           /\ parsed = Join([i \in 1..N |-> ExpectedPrefix(i, N) \o ls[i]], <<"\n">>)
           /\ fmt.show_line_numbers =>
                \A i \in CallsOf("write_line_number") :
                  Rank(i) <= N =>
                    history[i].wrote =
                      SubSeq(Lines(parsed)[Rank(i)], 1, NumDigits(N) + 3)

\* A document of ten lines or more was numbered by process_file, and an
\* enabled formatter wrote the prefixes of its first ten lines.
C5_Witness ==
  /\ pc = "push_tty"
  /\ fmt.show_line_numbers
  /\ total_lines >= 10
  /\ Cardinality(CallsOf("write_line_number")) = 10
  /\ AllOk

\* C6: on an enabled formatter whose calls all succeeded, current_line()
\* is the number of write_line_number calls made: every such call raised
\* it by one and emitted the new value as its number, and write_newline
\* left it alone.
C6_CursorCountsCalls ==
  (fmt.show_line_numbers /\ AllOk) =>
    /\ current_line(fmt) = Cardinality(CallsOf("write_line_number"))
    /\ \A i \in CallsOf("write_line_number") :
         history[i].wrote =
           PadLeft(to_string(Rank(i)), fmt.line_number_width) \o SeparatorTail
    /\ \A i \in CallsOf("write_newline") : history[i].wrote = <<"\n">>

\* An enabled formatter after write_line_number, write_newline,
\* write_line_number, as in test_line_number_formatter.
C6_Witness ==
  /\ fmt.show_line_numbers
  /\ AllOk
  /\ Len(history) = 3
  /\ history[1].op = "write_line_number"
  /\ history[2].op = "write_newline"
  /\ history[3].op = "write_line_number"
  /\ current_line(fmt) = 2

\* The characters of a text.
Chars(text) == {text[i] : i \in 1..Len(text)}

\* C7: a disabled formatter never writes the separator glyph, whatever
\* total_lines it was made with: write_line_number hands nothing to the
\* writer and write_newline exactly one newline.
C7_DisabledWritesNoSeparator ==
  ~fmt.show_line_numbers =>
    /\ SEPARATOR \notin Chars(writer)
    /\ \A i \in CallsOf("write_line_number") : history[i].wrote = <<>> /\ history[i].ok
    /\ \A i \in CallsOf("write_newline") : history[i].wrote = <<"\n">>
    /\ writer = [i \in 1..Cardinality({j \in CallsOf("write_newline") : history[j].ok})
                   |-> "\n"]

\* A disabled formatter made with a total of ten lines or more, after two
\* write_line_number calls and a write_newline.
C7_Witness ==
  /\ ~fmt.show_line_numbers
  /\ total_lines >= 10
  /\ Cardinality(CallsOf("write_line_number")) = 2
  /\ writer = <<"\n">>

\* C10 as stated: every write_line_number call moves the cursor by one,
\* enabled or not, so that current_line() is the number of calls made.
C10_Original ==
  current_line(fmt) = Cardinality(CallsOf("write_line_number"))

\* C10 as amended: a write_line_number call moves the cursor by one only
\* on an enabled formatter (whether or not its write succeeds); on a
\* disabled formatter the call changes nothing and current_line() stays 0.
C10_CursorMovesOnlyWhenEnabled ==
  current_line(fmt) =
    IF fmt.show_line_numbers THEN Cardinality(CallsOf("write_line_number")) ELSE 0

\* A disabled formatter after three write_line_number calls.
C10_Witness ==
  /\ ~fmt.show_line_numbers
  /\ Cardinality(CallsOf("write_line_number")) = 3
  /\ current_line(fmt) = 0

(***************************************************************************)
(* The resource policy (src/args.rs) and create_resource_handler           *)
(* (src/lib.rs).                                                           *)
(***************************************************************************)
DEFAULT_RESOURCE_READ_LIMIT == 104857600

\* concat!(env!("CARGO_PKG_NAME"), "/", env!("CARGO_PKG_VERSION"))
UserAgent == "mdcat/version"

\* CommonArgs::resource_access
resource_access(flag) == IF flag THEN "LocalOnly" ELSE "Remote"

\* FileResourceHandler::new(read_limit)
FileResourceHandler(read_limit) == [strategy |-> "file", read_limit |-> read_limit]

\* CurlResourceHandler::create(read_limit, user_agent), when it succeeds
CurlResourceHandler(read_limit, user_agent) ==
  [strategy |-> "curl", read_limit |-> read_limit, user_agent |-> user_agent]

\* A variant of create_resource_handler that puts the HTTP client first.
create_resource_handler_client_first(policy, client_ok) ==
  IF policy = "Remote"
  THEN IF client_ok
       THEN [tag |-> "Ok",
             handlers |-> <<CurlResourceHandler(DEFAULT_RESOURCE_READ_LIMIT, UserAgent),
                            FileResourceHandler(DEFAULT_RESOURCE_READ_LIMIT)>>]
       ELSE Err("Failed to build HTTP client")
  ELSE [tag |-> "Ok", handlers |-> <<FileResourceHandler(DEFAULT_RESOURCE_READ_LIMIT)>>]

\* A variant of create_resource_handler that builds the HTTP client
\* whatever the policy.
create_resource_handler_always_remote(policy, client_ok) ==
  IF client_ok
  THEN [tag |-> "Ok",
        handlers |-> <<FileResourceHandler(DEFAULT_RESOURCE_READ_LIMIT),
                       CurlResourceHandler(DEFAULT_RESOURCE_READ_LIMIT, UserAgent)>>]
  ELSE Err("Failed to build HTTP client")

\* create_resource_handler: client_ok is whether CurlResourceHandler::create
\* succeeds, which is asked under Remote alone.
create_resource_handler(policy, client_ok) ==
  LET resource_handlers == <<FileResourceHandler(DEFAULT_RESOURCE_READ_LIMIT)>>
  IN  IF policy = "Remote"
      THEN IF client_ok
           THEN [tag |-> "Ok",
                 handlers |-> Append(resource_handlers,
                                CurlResourceHandler(DEFAULT_RESOURCE_READ_LIMIT, UserAgent))]
           ELSE Err("Failed to build HTTP client")
      ELSE [tag |-> "Ok", handlers |-> resource_handlers]

\* args.resource_access()
ResourceAccess ==
  /\ access = "none"
  /\ access' = resource_access(local_only)
  /\ UNCHANGED <<local_only, handler, request, responses,
                 docVars, statsVars, procVars, fmtVars>>

\* create_resource_handler(args.resource_access())
CreateResourceHandler ==
  /\ access # "none"
  /\ handler = NoResult
  /\ \E client_ok \in BOOLEAN : handler' = create_resource_handler(access, client_ok)
  /\ UNCHANGED <<local_only, access, request, responses,
                 docVars, statsVars, procVars, fmtVars>>

(***************************************************************************)
(* The dispatching resolver and its strategies, which are not among the    *)
(* sources: they follow the design document.                               *)
(***************************************************************************)
Schemes == {"file", "http", "https", "data"}

\* The schemes a network strategy alone resolves.
NetworkSchemes == {"http", "https"}

\* The sizes of the resources asked for: small, at the ceiling, beyond it.
Sizes == {1, DEFAULT_RESOURCE_READ_LIMIT, DEFAULT_RESOURCE_READ_LIMIT + 1}

Urls == [scheme : Schemes, size : Sizes]

\* Whether a strategy claims a URL.
Applicable(h, url) ==
  \/ h.strategy = "file" /\ url.scheme = "file"
  \/ h.strategy = "curl" /\ url.scheme \in NetworkSchemes

\* What a strategy that claims a URL may answer: a resource beyond the
\* ceiling is a failure, and a read or a fetch may fail on its own.
Answers(h, url) ==
  IF url.size > h.read_limit THEN {"Failed"} ELSE {"Resolved", "Failed"}

\* What the resolver answers when every strategy declined.
Declined(url) ==
  IF url.scheme \in NetworkSchemes THEN "RemoteDisabled" ELSE "Unsupported"

\* The renderer asks for a resource.
BeginRequest ==
  /\ handler.tag = "Ok"
  /\ request = NoRequest
  /\ Len(responses) < MaxRequests
  /\ \E url \in Urls : request' = [tag |-> "pending", url |-> url, at |-> 1, asked |-> <<>>]
  /\ UNCHANGED <<local_only, access, handler, responses,
                 docVars, statsVars, procVars, fmtVars>>

\* The resolver asks the next strategy, which declines or answers.
TryStrategy ==
  /\ request.tag = "pending"
  /\ request.at <= Len(handler.handlers)
  /\ LET h == handler.handlers[request.at]
         asked == Append(request.asked, h.strategy)
     IN  IF Applicable(h, request.url)
         THEN /\ \E answer \in Answers(h, request.url) :
                   responses' = Append(responses,
                                  [url |-> request.url, outcome |-> answer, asked |-> asked])
              /\ request' = NoRequest
         ELSE /\ request' = [request EXCEPT !.at = @ + 1, !.asked = asked]
              /\ UNCHANGED responses
  /\ UNCHANGED <<local_only, access, handler, docVars, statsVars, procVars, fmtVars>>

\* Every strategy declined.
NoStrategy ==
  /\ request.tag = "pending"
  /\ request.at > Len(handler.handlers)
  /\ responses' = Append(responses,
                    [url |-> request.url, outcome |-> Declined(request.url),
                     asked |-> request.asked])
  /\ request' = NoRequest
  /\ UNCHANGED <<local_only, access, handler, docVars, statsVars, procVars, fmtVars>>

InitRes ==
  /\ local_only \in BOOLEAN
  /\ access = "none"
  /\ handler = NoResult
  /\ request = NoRequest
  /\ responses = <<>>
  /\ IdleDoc /\ IdleStats /\ IdleProc /\ IdleFmt

NextRes ==
  \/ ResourceAccess
  \/ CreateResourceHandler
  \/ BeginRequest
  \/ TryStrategy
  \/ NoStrategy

SpecRes == InitRes /\ [][NextRes]_vars

\* C8: the chain create_resource_handler builds depends on the policy
\* alone: the file strategy is first, the network strategy follows it if
\* and only if the policy is Remote (local_only is false), LocalOnly gives
\* the file strategy alone, and every strategy has the ceiling of
\* 104,857,600 bytes.
C8_ChainFollowsPolicy ==
  /\ access # "none" => (access = "LocalOnly" <=> local_only)
  /\ handler.tag = "Ok" =>
       LET hs == handler.handlers
       IN  /\ Len(hs) >= 1
           /\ hs[1].strategy = "file"
           /\ (\E i \in 1..Len(hs) : hs[i].strategy = "curl") <=> ~local_only
           /\ ~local_only => (Len(hs) = 2 /\ hs[2].strategy = "curl")
           /\ local_only => Len(hs) = 1
           /\ \A i \in 1..Len(hs) : hs[i].read_limit = 104857600
  /\ handler.tag = "Err" => access = "Remote"

\* The chain was built under Remote and holds both strategies.
C8_Witness ==
  /\ access = "Remote"
  /\ handler.tag = "Ok"
  /\ Len(handler.handlers) = 2

FromMarkdown ==
  /\ stats.by = "none"
  /\ stats' = [by |-> "from_markdown", value |-> from_markdown(file, events)]
  /\ UNCHANGED <<overflow_checks, reading, docVars, procVars, fmtVars, resVars>>

\* stats.reading_time_minutes(): a build with overflow checks panics where
\* the sum overflows, any other build wraps.
ReadingTimeMinutes ==
  /\ stats.by # "none"
  /\ reading = NoReading
  /\ reading' =
       IF overflow_checks /\ ReadingTimeOverflows(stats.value)
       THEN [tag |-> "panic"]
       ELSE [tag |-> "value", minutes |-> reading_time_minutes(stats.value)]
  /\ UNCHANGED <<overflow_checks, stats, docVars, procVars, fmtVars, resVars>>

\* Documents of the corpus, not yet scanned.
InitStats ==
  /\ \E d \in Docs, nl \in BOOLEAN : file = Source(d, nl) /\ events = Parse(d)
  /\ overflow_checks \in BOOLEAN
  /\ stats = NoStats
  /\ reading = NoReading
  /\ IdleProc /\ IdleFmt /\ IdleRes

NextStats == FromMarkdown \/ ReadingTimeMinutes

SpecStats == InitStats /\ [][NextStats]_vars

\* DocumentStats values: the fields are public, so a caller builds any.
InitValue ==
  /\ IdleDoc
  /\ overflow_checks \in BOOLEAN
  /\ \E wc \in 0..(UsizeModulus - 1) :
       stats = [by |-> "literal", value |-> [DefaultStats EXCEPT !.word_count = wc]]
  /\ reading = NoReading
  /\ IdleProc /\ IdleFmt /\ IdleRes

NextValue == ReadingTimeMinutes

SpecValue == InitValue /\ [][NextValue]_vars

\* C3: the six structural counters from_markdown yields are each the number
\* of Start events of their construct in the event stream, whatever End,
\* text, item, row and cell events the stream holds besides.
C3_CountsAreStartEvents ==
  stats.by = "from_markdown" =>
    /\ stats.value.heading_count = NumStarts(events, "Heading")
    /\ stats.value.code_block_count = NumStarts(events, "CodeBlock")
    /\ stats.value.link_count = NumStarts(events, "Link")
    /\ stats.value.image_count = NumStarts(events, "Image")
    /\ stats.value.list_count = NumStarts(events, "List")
    /\ stats.value.table_count = NumStarts(events, "Table")

\* A scanned document with one list of two items and one table of two rows.
C3_Witness ==
  /\ stats.by = "from_markdown"
  /\ stats.value.list_count = 1
  /\ NumStarts(events, "Item") = 2
  /\ stats.value.table_count = 1
  /\ NumStarts(events, "TableCell") = 2

\* ceil(n / 225): the least m with 225 * m >= n.
CeilingMinutes(n) ==
  CHOOSE m \in 0..n : WORDS_PER_MINUTE * m >= n
                      /\ \A k \in 0..(m - 1) : WORDS_PER_MINUTE * k < n

\* C4: for every DocumentStats value, reading_time_minutes() returns the
\* integer ceiling of word_count / 225 (0 exactly when word_count is 0).
C4_ReadingTimeIsCeiling ==
  reading # NoReading =>
    /\ reading.tag = "value"
    /\ reading.minutes = CeilingMinutes(stats.value.word_count)
    /\ (reading.minutes = 0 <=> stats.value.word_count = 0)

=============================================================================
